---- MODULE Spec2Model ----
(***************************************************************************)
(* Model of src/src/fast_sweeping/fast_sweep_ext.c: the Python adapter     *)
(* w_fast_sweep/good_array and the fast sweeping solver fast_sweep /       *)
(* upwind / eq_solve.                                                      *)
(*                                                                         *)
(* Representation of floating point values.                                *)
(*  - A float64 object in memory (an entry of StartTime / Time_old, or     *)
(*    the scratch NewVal[0]) is the pair of its two 32-bit words,          *)
(*    [hi, lo].  This is needed because eq_solve is declared with a        *)
(*    float32_t* parameter (line 189) while upwind hands it the float64_t  *)
(*    NewVal[1] of fast_sweep (lines 69, 183): the store through the       *)
(*    float32_t pointer rewrites only the low word of the double, the high *)
(*    word keeps what the object held before (little-endian layout, the    *)
(*    float occupying the four low-order bytes).                           *)
(*  - The only high words that can occur are those of 0.0, of +INFINITY    *)
(*    and of whatever uninitialised storage holds, because high words are  *)
(*    only ever copied, never computed.                                    *)
(*  - The low word is a float32 bit pattern.  It is kept as an             *)
(*    order-isomorphic image: 0 for 0.0f, the fixed-point value v (units   *)
(*    1/SCALE) for a positive finite float, INF32_LO for +inf and          *)
(*    QNAN32_LO for a NaN (IEEE-754: patterns of positive floats are       *)
(*    ordered like their values, and +inf and the NaNs lie above them).    *)
(*  - A value used in arithmetic (the "numeric" domain) is a record        *)
(*    [k, v]: k = "fin" with v in units of 1/SCALE, or "inf", "ninf",      *)
(*    "nan".                                                               *)
(*                                                                         *)
(* Undefined behaviour.                                                    *)
(*  - NewVal[1] of fast_sweep (line 69) is never initialised; its high     *)
(*    word is first read in line 185.  The variable garbage ranges over    *)
(*    what that word may read: 0x00000000, 0x80000000 (sign bit set) and   *)
(*    0x7FF00000 (the high word of an infinity or NaN).  With these the    *)
(*    objects are zero, subnormal, infinite or NaN, for which the          *)
(*    arithmetic below is exact at the resolution 1/SCALE.                 *)
(*  - Time_old is allocated with sizeof(float32_t) per entry (line 76) and *)
(*    written with float64_t entries (line 93).  The writes past the block *)
(*    either land (snapshot) or are trapped (snapshot_fault).              *)
(***************************************************************************)
EXTENDS Integers, Sequences, FiniteSets, TLC

(* ------------------------------ bounds -------------------------------- *)
MaxStk == 3
MaxDip == 3
MaxSlow == 2
MaxPatch == 1
MaxIter == 3
SCALE == 1000

(* ------------------------- program constants -------------------------- *)
SIZEOF_FLOAT32 == 4
SIZEOF_FLOAT64 == 8

HI_ZERO == "0x00000000"
HI_NEG == "0x80000000"
HI_INF == "0x7FF00000"

\* The largest finite result the bounded inputs can produce, and the images
\* of the float32 patterns of +inf and of a NaN above it.
MaxFin32 == 4 * MaxSlow * MaxPatch * SCALE
INF32_LO == MaxFin32 + 1
QNAN32_LO == MaxFin32 + 2

(* --------------------------- numeric domain --------------------------- *)
Fin(v) == [k |-> "fin", v |-> v]
PInf == [k |-> "inf", v |-> 0]
NInf == [k |-> "ninf", v |-> 0]
NaN == [k |-> "nan", v |-> 0]

RECURSIVE ISqrt(_)
ISqrt(n) ==
    IF n < 2 THEN n
    ELSE LET s == 2 * ISqrt(n \div 4)
         IN  IF (s + 1) * (s + 1) <= n THEN s + 1 ELSE s

FNeg(x) ==
    CASE x.k = "fin" -> Fin(0 - x.v)
      [] x.k = "inf" -> NInf
      [] x.k = "ninf" -> PInf
      [] OTHER -> NaN

FAdd(x, y) ==
    CASE x.k = "nan" \/ y.k = "nan" -> NaN
      [] x.k = "inf" /\ y.k = "ninf" -> NaN
      [] x.k = "ninf" /\ y.k = "inf" -> NaN
      [] x.k = "inf" \/ y.k = "inf" -> PInf
      [] x.k = "ninf" \/ y.k = "ninf" -> NInf
      [] OTHER -> Fin(x.v + y.v)

FSub(x, y) == FAdd(x, FNeg(y))

\* fabs()
FAbs(x) ==
    CASE x.k = "fin" -> Fin(IF x.v < 0 THEN 0 - x.v ELSE x.v)
      [] x.k = "nan" -> NaN
      [] OTHER -> PInf

FMul(x, y) ==
    CASE x.k = "nan" \/ y.k = "nan" -> NaN
      [] x.k = "fin" /\ y.k = "fin" -> Fin((x.v * y.v) \div SCALE)
      [] (x.k = "fin" /\ x.v = 0) \/ (y.k = "fin" /\ y.v = 0) -> NaN
      [] OTHER ->
           LET xneg == x.k = "ninf" \/ (x.k = "fin" /\ x.v < 0)
               yneg == y.k = "ninf" \/ (y.k = "fin" /\ y.v < 0)
           IN  IF xneg = yneg THEN PInf ELSE NInf

\* pow(x, 2.0)
FSquare(x) == FMul(x, x)

\* pow(x, 0.5)
FSqrt(x) ==
    CASE x.k = "nan" -> NaN
      [] x.k = "fin" -> IF x.v < 0 THEN NaN ELSE Fin(ISqrt(x.v * SCALE))
      [] OTHER -> PInf

\* x / 2.0
FHalf(x) == IF x.k = "fin" THEN Fin(x.v \div 2) ELSE x

\* Ordered comparisons: false as soon as an operand is a NaN.
FOrd(x) ==
    CASE x.k = "ninf" -> 0 - 1
      [] x.k = "inf" -> 1
      [] OTHER -> 0

FLt(x, y) ==
    /\ x.k # "nan"
    /\ y.k # "nan"
    /\ \/ FOrd(x) < FOrd(y)
       \/ x.k = "fin" /\ y.k = "fin" /\ x.v < y.v

FGe(x, y) == x.k # "nan" /\ y.k # "nan" /\ ~FLt(x, y)

FGt(x, y) == FLt(y, x)

(* ----------------------- float64 objects in memory --------------------- *)
Zero64 == [hi |-> HI_ZERO, lo |-> 0]
Inf64 == [hi |-> HI_INF, lo |-> 0]

\* An object nobody has written yet, in storage whose words read g.
Uninit64(g) == [hi |-> g, lo |-> 0]

IsNaN64(d) == d.hi = HI_INF /\ d.lo # 0
IsFinite64(d) == d.hi # HI_INF

\* The position of a non-NaN double in the order of the reals: the
\* subnormals +lo*2^-1074 (high word 0x00000000) and -lo*2^-1074 (high
\* word 0x80000000), and +infinity above them all.
Key64(d) ==
    CASE d.hi = HI_ZERO -> d.lo
      [] d.hi = HI_NEG -> 0 - d.lo
      [] OTHER -> QNAN32_LO + 1

\* The C operator < on two float64 objects.
DLt(x, y) == ~IsNaN64(x) /\ ~IsNaN64(y) /\ Key64(x) < Key64(y)

\* The C operator == on two float64 objects.
DEq(x, y) == ~IsNaN64(x) /\ ~IsNaN64(y) /\ Key64(x) = Key64(y)

\* The value an arithmetic operation sees when it loads the object: with
\* high word 0x00000000 or 0x80000000 the object is zero or subnormal
\* (below 2^-1042 in magnitude), which is 0 at the resolution 1/SCALE and is
\* absorbed by any sum with a normal number.
Num64(d) ==
    IF d.hi = HI_INF
    THEN IF d.lo = 0 THEN PInf ELSE NaN
    ELSE Fin(0)

\* The float32 bit pattern of a numeric value (conversion float64 -> float32),
\* as its order-isomorphic image.
\* (A negative result cannot arise from operands that are zero, subnormal
\* or +infinity; its pattern has the sign bit set and lies above the others.)
Bits32(x) ==
    CASE x.k = "fin" -> IF x.v < 0 THEN QNAN32_LO ELSE x.v
      [] x.k = "inf" -> INF32_LO
      [] OTHER -> QNAN32_LO

\* A store of x through a float32_t pointer that points at the float64
\* object d: the low word becomes the float's pattern, the high word stays.
StoreFloat32(d, x) == [hi |-> d.hi, lo |-> Bits32(x)]

\* A load of the float32 that occupies the low word of d.
Load32(d) ==
    CASE d.lo = QNAN32_LO -> NaN
      [] d.lo = INF32_LO -> PInf
      [] OTHER -> Fin(d.lo)

(* ------------------------------- state -------------------------------- *)
VARIABLES
    pc,          \* position: "call", "error", "init", "snapshot", "sweep",
                 \* "residual", "done", "fault"
    obj,         \* the object passed as slowness_arr
    Slowness,    \* the data of slowness_arr, in units of 1/SCALE
    PatchSize,   \* patch_size, in units of 1/SCALE
    HypoInStk,
    HypoInDip,
    NumInStk,
    NumInDip,
    garbage,     \* what a word of uninitialised storage reads
    arr_size,    \* arr_size[0] of w_fast_sweep
    error,       \* the message set on FastSweepExtError, "" if none
    StartTime,   \* the data of tzero_arr
    Time_old,
    NewVal,      \* NewVal[0] of fast_sweep
    err,
    num_iter,
    ii,
    i,
    j

vars ==
    << pc, obj, Slowness, PatchSize, HypoInStk, HypoInDip, NumInStk, NumInDip,
       garbage, arr_size, error, StartTime, Time_old, NewVal, err, num_iter,
       ii, i, j >>

inputs ==
    << obj, Slowness, PatchSize, HypoInStk, HypoInDip, NumInStk, NumInDip,
       garbage >>

(* ------------------------------ adapter ------------------------------- *)
\* good_array with shape_want == NULL: the message it sets, "ok" if none.
good_array(o, typenum, size_want, ndim_want) ==
    IF ~o.is_array THEN "not a NumPy array"
    ELSE IF o.typenum # typenum THEN "array of unexpected type"
    ELSE IF ~o.carray THEN "array is not contiguous or not well behaved"
    ELSE IF size_want # 0 - 1 /\ size_want # o.size
         THEN "array is of unexpected size"
    ELSE IF ndim_want # 0 - 1 /\ ndim_want # o.ndim
         THEN "array is of unexpected ndim"
    ELSE "ok"

\* PyArray_SIZE
PyArray_SIZE(o) == o.size

\* w_fast_sweep up to the call of fast_sweep: the size good_array is asked
\* to want is the size the array has.
w_fast_sweep ==
    /\ pc = "call"
    /\ arr_size' = PyArray_SIZE(obj)
    /\ LET res == good_array(obj, "NPY_FLOAT64", PyArray_SIZE(obj), 0 - 1)
       IN  IF res # "ok"
           THEN /\ pc' = "error"
                /\ error' = res
                /\ StartTime' = StartTime
           ELSE /\ pc' = "init"
                /\ error' = error
                /\ StartTime' =
                       [k \in 0 .. PyArray_SIZE(obj) - 1 |-> Uninit64(garbage)]
    /\ UNCHANGED << inputs, Time_old, NewVal, err, num_iter, ii, i, j >>

(* ------------------------------- solver ------------------------------- *)
Vect_from_Mat(sel_row, sel_col, colNum) == sel_row * colNum + sel_col

PatchNum == NumInStk * NumInDip

epsilon == Fin(SCALE \div 10)

\* The bytes malloc is asked for, and whether entry k of Time_old lies in them.
Time_old_bytes == PatchNum * SIZEOF_FLOAT32

Time_old_in_bounds(k) == (k + 1) * SIZEOF_FLOAT64 <= Time_old_bytes

\* The test of line 190 failing, so that eq_solve takes its else branch.
eq_solve_else(an, bn, fh) == ~FGe(FAbs(FSub(an, bn)), fh)

\* The argument of pow(.., 0.5) in line 195.
eq_solve_radicand(an, bn, f, h) ==
    FSub(FMul(FMul(FMul(FMul(Fin(2 * SCALE), f), f), h), h),
         FSquare(FSub(an, bn)))

\* eq_solve: NewValObj is the float64 object the float32_t pointer points
\* at, a and b are float64 values, f and h numeric values; the result is the
\* object after the two stores of the branch taken.
eq_solve(NewValObj, x, a, b, f, h) ==
    LET an == Num64(a)
        bn == Num64(b)
        fh == FMul(f, h)
    IN  IF ~eq_solve_else(an, bn, fh)
        THEN LET n1 == StoreFloat32(NewValObj, IF FLt(an, bn) THEN an ELSE bn)
             IN  StoreFloat32(n1, FAdd(Load32(n1), fh))
        ELSE LET root == FSqrt(eq_solve_radicand(an, bn, f, h))
                 n1 == StoreFloat32(NewValObj, FAdd(FAdd(an, bn), root))
             IN  StoreFloat32(n1, FHalf(Load32(n1)))

\* The clamped neighbour indices of upwind.
Row1(r) == IF r - 1 < 0 THEN 0 ELSE r - 1

Row2(r, nStk) == IF r + 1 >= nStk THEN nStk - 1 ELSE r + 1

Col1(c) == IF c - 1 < 0 THEN 0 ELSE c - 1

\* Col2 taking the node at the other end of the row instead of the last one.
Col2_wrapped(c, nDip) == IF c + 1 >= nDip THEN 0 ELSE c + 1

Col2(c, nDip) == IF c + 1 >= nDip THEN nDip - 1 ELSE c + 1

u_xmin(T, r, c, nStk, nDip) ==
    LET t1 == T[Vect_from_Mat(Row1(r), c, nDip)]
        t2 == T[Vect_from_Mat(Row2(r, nStk), c, nDip)]
    IN  IF DLt(t1, t2) THEN t1 ELSE t2

u_ymin(T, r, c, nStk, nDip) ==
    LET t3 == T[Vect_from_Mat(r, Col1(c), nDip)]
        t4 == T[Vect_from_Mat(r, Col2(c, nDip), nDip)]
    IN  IF DLt(t3, t4) THEN t3 ELSE t4

\* upwind with the two arms of its last line exchanged.
upwind_swapped(NewValObj, T, r, c, S, h, nStk, nDip) ==
    LET p0 == Vect_from_Mat(r, c, nDip)
        sol == eq_solve(NewValObj, T[p0], u_xmin(T, r, c, nStk, nDip),
                        u_ymin(T, r, c, nStk, nDip), Fin(S[p0]), Fin(h))
    IN  IF DLt(sol, T[p0]) THEN T[p0] ELSE sol

\* upwind without its last line.
upwind_nomin(NewValObj, T, r, c, S, h, nStk, nDip) ==
    LET p0 == Vect_from_Mat(r, c, nDip)
    IN  eq_solve(NewValObj, T[p0], u_xmin(T, r, c, nStk, nDip),
                 u_ymin(T, r, c, nStk, nDip), Fin(S[p0]), Fin(h))

\* upwind: the object NewVal[0] is when it returns.
upwind(NewValObj, T, r, c, S, h, nStk, nDip) ==
    LET p0 == Vect_from_Mat(r, c, nDip)
        sol == eq_solve(NewValObj, T[p0], u_xmin(T, r, c, nStk, nDip),
                        u_ymin(T, r, c, nStk, nDip), Fin(S[p0]), Fin(h))
    IN  IF DLt(sol, T[p0]) THEN sol ELSE T[p0]

\* Lines 73-89: the field is set to +INFINITY, the hypocenter to 0.0, and
\* the loop is entered since err is 1.0E+6.
fast_sweep_init ==
    /\ pc = "init"
    /\ StartTime' =
           [k \in DOMAIN StartTime |->
               IF k = Vect_from_Mat(HypoInStk, HypoInDip, NumInDip) THEN Zero64
               ELSE IF k < PatchNum THEN Inf64
               ELSE StartTime[k]]
    /\ err' = Fin(1000000 * SCALE)
    /\ num_iter' = 0
    /\ pc' = IF FGt(Fin(1000000 * SCALE), epsilon) THEN "snapshot" ELSE "done"
    /\ UNCHANGED << inputs, arr_size, error, Time_old, NewVal, ii, i, j >>

\* Lines 90-97: the copy into Time_old, every write of it landing where it
\* is aimed although the block is too short.
snapshot ==
    /\ pc = "snapshot"
    /\ Time_old' = [k \in 0 .. PatchNum - 1 |-> StartTime[k]]
    /\ pc' = "sweep"
    /\ ii' = 0
    /\ i' = 0
    /\ j' = 0
    /\ UNCHANGED << inputs, arr_size, error, StartTime, NewVal, err, num_iter >>

\* Lines 90-95, the other outcome: a write past the end of the block that
\* malloc returned is trapped and the process ends.
snapshot_fault ==
    /\ pc = "snapshot"
    /\ \E k \in 0 .. PatchNum - 1 : ~Time_old_in_bounds(k)
    /\ pc' = "fault"
    /\ UNCHANGED << inputs, arr_size, error, StartTime, Time_old, NewVal, err,
                    num_iter, ii, i, j >>

PassStartI(pass) == IF pass \in {0, 3} THEN 0 ELSE NumInStk - 1

PassStartJ(pass) == IF pass \in {0, 1} THEN 0 ELSE NumInDip - 1

\* Lines 97-134: one node of one pass (upwind and the write of its result),
\* and the loop counters moved to the next node.
sweep_node ==
    /\ pc = "sweep"
    /\ LET nv == upwind(NewVal, StartTime, i, j, Slowness, PatchSize,
                        NumInStk, NumInDip)
       IN  /\ NewVal' = nv
           /\ StartTime' =
                  [StartTime EXCEPT ![Vect_from_Mat(i, j, NumInDip)] = nv]
    /\ LET jNext == IF ii \in {0, 1} THEN j + 1 ELSE j - 1
           jDone == IF ii \in {0, 1} THEN jNext >= NumInDip ELSE jNext < 0
           iNext == IF ii \in {0, 3} THEN i + 1 ELSE i - 1
           iDone == IF ii \in {0, 3} THEN iNext >= NumInStk ELSE iNext < 0
       IN  IF ~jDone
           THEN /\ j' = jNext
                /\ UNCHANGED << i, ii, pc >>
           ELSE IF ~iDone
           THEN /\ i' = iNext
                /\ j' = PassStartJ(ii)
                /\ UNCHANGED << ii, pc >>
           ELSE IF ii + 1 < 4
           THEN /\ ii' = ii + 1
                /\ i' = PassStartI(ii + 1)
                /\ j' = PassStartJ(ii + 1)
                /\ UNCHANGED pc
           ELSE /\ pc' = "residual"
                /\ ii' = 0
                /\ i' = 0
                /\ j' = 0
    /\ UNCHANGED << inputs, arr_size, error, Time_old, err, num_iter >>

\* Lines 136-139: err summed over the first n entries.
RECURSIVE SumSq(_, _, _)
SumSq(T, Old, n) ==
    IF n = 0 THEN Fin(0)
    ELSE FAdd(SumSq(T, Old, n - 1),
              FSquare(FSub(Num64(T[n - 1]), Num64(Old[n - 1]))))

\* Lines 136-141 and the loop test of line 89.
residual ==
    /\ pc = "residual"
    /\ LET e == SumSq(StartTime, Time_old, PatchNum)
       IN  /\ err' = e
           /\ IF FGt(e, epsilon)
              THEN /\ num_iter + 1 < MaxIter
                   /\ pc' = "snapshot"
              ELSE pc' = "done"
    /\ num_iter' = num_iter + 1
    /\ UNCHANGED << inputs, arr_size, error, StartTime, Time_old, NewVal,
                    ii, i, j >>

(* ------------------------------- inputs ------------------------------- *)
Patterns == {"uniform", "midcol", "midrow", "corner"}

\* A slowness field of size entries over an nStk x nDip grid: level s on the
\* pattern's nodes and level 1 elsewhere, in units of 1/SCALE.
Field(pat, s, nStk, nDip, size) ==
    [k \in 0 .. size - 1 |->
        LET r == k \div nDip
            c == k % nDip
            on == CASE pat = "uniform" -> TRUE
                    [] pat = "midcol" -> 2 * c = nDip - 1
                    [] pat = "midrow" -> 2 * r = nStk - 1
                    [] OTHER -> k = 0
        IN  IF k < nStk * nDip /\ on THEN s * SCALE ELSE SCALE]

\* The objects handed over as slowness_arr for an nStk x nDip grid.
Objects(n) ==
    {[is_array |-> TRUE, typenum |-> "NPY_FLOAT64", carray |-> TRUE,
      size |-> sz, ndim |-> 1] : sz \in {n, n + 1}}
    \cup
    {[is_array |-> FALSE, typenum |-> "NPY_FLOAT64", carray |-> TRUE,
      size |-> n, ndim |-> 1],
     [is_array |-> TRUE, typenum |-> "NPY_FLOAT32", carray |-> TRUE,
      size |-> n, ndim |-> 1],
     [is_array |-> TRUE, typenum |-> "NPY_FLOAT64", carray |-> FALSE,
      size |-> n, ndim |-> 1]}

Init ==
    /\ pc = "call"
    /\ NumInStk \in 1 .. MaxStk
    /\ NumInDip \in 1 .. MaxDip
    /\ HypoInStk \in 0 .. NumInStk - 1
    /\ HypoInDip \in 0 .. NumInDip - 1
    /\ PatchSize \in {p * SCALE : p \in 1 .. MaxPatch}
    /\ obj \in Objects(NumInStk * NumInDip)
    /\ Slowness \in {Field(pat, s, NumInStk, NumInDip, obj.size) :
                        pat \in Patterns, s \in 1 .. MaxSlow}
    /\ garbage \in {HI_ZERO, HI_NEG, HI_INF}
    \* the calls that are not valid are tried with one patch size and one
    \* content of uninitialised storage
    /\ \/ /\ obj.is_array
          /\ obj.typenum = "NPY_FLOAT64"
          /\ obj.carray
          /\ obj.size = NumInStk * NumInDip
       \/ /\ PatchSize = SCALE
          /\ garbage = HI_ZERO
    /\ arr_size = 0
    /\ error = ""
    /\ StartTime = << >>
    /\ Time_old = << >>
    /\ NewVal = Uninit64(garbage)
    /\ err = Fin(0)
    /\ num_iter = 0
    /\ ii = 0
    /\ i = 0
    /\ j = 0

Next ==
    \/ w_fast_sweep
    \/ fast_sweep_init
    \/ snapshot
    \/ snapshot_fault
    \/ sweep_node
    \/ residual

Spec == Init /\ [][Next]_vars

(* ------------------------------- claims ------------------------------- *)
\* The call satisfies the solver's preconditions: an array of the right kind
\* with NumInStk * NumInDip entries (the hypocenter is in bounds and slowness
\* and patch size are positive in every initial state).
Valid ==
    /\ good_array(obj, "NPY_FLOAT64", 0 - 1, 0 - 1) = "ok"
    /\ obj.size = NumInStk * NumInDip

\* fast_sweep has finished its initialisation.
Started == pc \in {"snapshot", "sweep", "residual", "done", "fault"}

HypoPos == Vect_from_Mat(HypoInStk, HypoInDip, NumInDip)

Nodes == 0 .. PatchNum - 1

\* A step of the program is possible: every position but the final ones has
\* one, the loop test being cut off at MaxIter iterations.
CanStep ==
    \/ pc \in {"call", "init", "snapshot", "sweep"}
    \/ /\ pc = "residual"
       /\ \/ ~FGt(SumSq(StartTime, Time_old, PatchNum), epsilon)
          \/ num_iter + 1 < MaxIter

\* The state is one fast_sweep stays in for ever without having returned.
Stuck == pc # "done" /\ ~CanStep

\* C1: for valid input the time field entry of the hypocenter equals 0 in
\* every state from the end of the initialisation on: after every node write
\* of every pass of every iteration, and at return.
C1_HypocenterZero ==
    (Valid /\ Started) => DEq(StartTime[HypoPos], Zero64)

\* C2: after the initialisation no write to the time field increases a
\* node's value: what a node write of a pass leaves in an entry is the value
\* it held or a smaller one, and when the four passes are over no entry is
\* above its snapshot.
C2_NoWriteIncreases ==
    [][/\ pc = "sweep" =>
            \A k \in DOMAIN StartTime :
                \/ StartTime'[k] = StartTime[k]
                \/ DLt(StartTime'[k], StartTime[k])
       /\ pc' = "residual" =>
            \A k \in Nodes :
                \/ StartTime'[k] = Time_old'[k]
                \/ DLt(StartTime'[k], Time_old'[k])]_vars

\* A node write has lowered a node that held a finite value before the
\* iteration began.
C2_Witness ==
    /\ pc = "sweep"
    /\ Valid
    /\ \E k \in Nodes :
          /\ IsFinite64(Time_old[k])
          /\ DLt(StartTime[k], Time_old[k])

\* C3: whenever fast_sweep is invoked, the slowness array has exactly
\* num_strk * num_dip entries (w_fast_sweep rejects every other length).
C3_SizeChecked ==
    pc \notin {"call", "error"} => obj.size = NumInStk * NumInDip

ClampTo(x, low, high) == IF x < low THEN low ELSE IF x > high THEN high ELSE x

\* C4: at every node (i, j) that upwind is called for, the neighbour indices
\* are i-1, i+1 clamped to [0, NumInStk-1] and j-1, j+1 clamped to
\* [0, NumInDip-1], every flat index read lies in [0, NumInStk*NumInDip-1],
\* and on a grid edge the neighbour in the missing direction is the node
\* itself.
C4_NeighboursClamped ==
    pc = "sweep" =>
        LET p0 == Vect_from_Mat(i, j, NumInDip)
            p1 == Vect_from_Mat(Row1(i), j, NumInDip)
            p2 == Vect_from_Mat(Row2(i, NumInStk), j, NumInDip)
            p3 == Vect_from_Mat(i, Col1(j), NumInDip)
            p4 == Vect_from_Mat(i, Col2(j, NumInDip), NumInDip)
        IN  /\ i \in 0 .. NumInStk - 1
            /\ j \in 0 .. NumInDip - 1
            /\ Row1(i) = ClampTo(i - 1, 0, NumInStk - 1)
            /\ Row2(i, NumInStk) = ClampTo(i + 1, 0, NumInStk - 1)
            /\ Col1(j) = ClampTo(j - 1, 0, NumInDip - 1)
            /\ Col2(j, NumInDip) = ClampTo(j + 1, 0, NumInDip - 1)
            /\ {p0, p1, p2, p3, p4} \subseteq 0 .. NumInStk * NumInDip - 1
            /\ i = 0 => p1 = p0
            /\ i = NumInStk - 1 => p2 = p0
            /\ j = 0 => p3 = p0
            /\ j = NumInDip - 1 => p4 = p0

\* upwind is called for the last node of a 1xN grid, N > 1.
C4_Witness ==
    /\ pc = "sweep"
    /\ NumInStk = 1
    /\ NumInDip > 1
    /\ j = NumInDip - 1

C6_OneByOne ==
    (Valid /\ NumInStk = 1 /\ NumInDip = 1 /\ pc = "done") =>
        /\ num_iter = 1
        /\ StartTime[0] = Zero64

\* C7: for the 3x3 grid with slowness 1.0 everywhere, patch size 1.0 and the
\* hypocenter at (1,1), the returned field is 0 at (1,1), 1.0 at the four
\* face-adjacent nodes, and strictly between 1.0 and 2.0 at the four corners
\* (values compared at the resolution 1/SCALE).
C7_ThreeByThree ==
    ( /\ Valid
      /\ pc = "done"
      /\ NumInStk = 3
      /\ NumInDip = 3
      /\ HypoInStk = 1
      /\ HypoInDip = 1
      /\ PatchSize = SCALE
      /\ \A k \in Nodes : Slowness[k] = SCALE ) =>
        /\ DEq(StartTime[4], Zero64)
        /\ \A k \in {1, 3, 5, 7} : Num64(StartTime[k]) = Fin(SCALE)
        /\ \A k \in {0, 2, 6, 8} :
              /\ FLt(Fin(SCALE), Num64(StartTime[k]))
              /\ FLt(Num64(StartTime[k]), Fin(2 * SCALE))

\* The slowness field and the hypocenter are mirror-symmetric about the
\* middle column, respectively the middle row.
ColSymmetric ==
    /\ 2 * HypoInDip = NumInDip - 1
    /\ \A r \in 0 .. NumInStk - 1, c \in 0 .. NumInDip - 1 :
          Slowness[Vect_from_Mat(r, c, NumInDip)]
              = Slowness[Vect_from_Mat(r, NumInDip - 1 - c, NumInDip)]

RowSymmetric ==
    /\ 2 * HypoInStk = NumInStk - 1
    /\ \A r \in 0 .. NumInStk - 1, c \in 0 .. NumInDip - 1 :
          Slowness[Vect_from_Mat(r, c, NumInDip)]
              = Slowness[Vect_from_Mat(NumInStk - 1 - r, c, NumInDip)]

\* C8: for a slowness field that is mirror-symmetric about a row or column
\* line and a hypocenter on that line, the returned time field is
\* mirror-symmetric about the same line.
C8_Symmetric ==
    (Valid /\ pc = "done") =>
        /\ ColSymmetric =>
              \A r \in 0 .. NumInStk - 1, c \in 0 .. NumInDip - 1 :
                  DEq(StartTime[Vect_from_Mat(r, c, NumInDip)],
                      StartTime[Vect_from_Mat(r, NumInDip - 1 - c, NumInDip)])
        /\ RowSymmetric =>
              \A r \in 0 .. NumInStk - 1, c \in 0 .. NumInDip - 1 :
                  DEq(StartTime[Vect_from_Mat(r, c, NumInDip)],
                      StartTime[Vect_from_Mat(NumInStk - 1 - r, c, NumInDip)])

\* C9: once the four passes of the first iteration are over, every node of
\* the time field holds a finite value: when the first residual is computed,
\* in every later state, and in every later snapshot.
C9_AllFinite ==
    /\ (Started /\ (pc = "residual" \/ num_iter >= 1)) =>
           \A k \in Nodes : IsFinite64(StartTime[k])
    /\ (pc \in {"sweep", "residual", "done"} /\ num_iter >= 1) =>
           \A k \in Nodes : IsFinite64(Time_old[k])

\* The first residual is about to be computed on a 3x3 grid whose first
\* nodes were visited with NewVal holding the high word of +INFINITY.
C9_Witness ==
    /\ pc = "residual"
    /\ num_iter = 0
    /\ NumInStk = 3
    /\ NumInDip = 3
    /\ HypoInStk = 1
    /\ HypoInDip = 1
    /\ garbage = HI_INF

\* C10: in every call of eq_solve of a solve on valid input, the else branch
\* is taken only when a and b are both finite and |a - b| < f*h, with a
\* well-defined non-negative argument of the square root; and when
\* |a - b| >= f*h the result is min(a, b) + f*h.
C10_ElseBranchFinite ==
    (Valid /\ pc = "sweep") =>
        LET a == u_xmin(StartTime, i, j, NumInStk, NumInDip)
            b == u_ymin(StartTime, i, j, NumInStk, NumInDip)
            an == Num64(a)
            bn == Num64(b)
            f == Fin(Slowness[Vect_from_Mat(i, j, NumInDip)])
            h == Fin(PatchSize)
            fh == FMul(f, h)
            rad == eq_solve_radicand(an, bn, f, h)
            out == eq_solve(NewVal, StartTime[Vect_from_Mat(i, j, NumInDip)],
                            a, b, f, h)
        IN  /\ eq_solve_else(an, bn, fh) =>
                  /\ an.k = "fin"
                  /\ bn.k = "fin"
                  /\ FLt(FAbs(FSub(an, bn)), fh)
                  /\ rad.k = "fin"
                  /\ rad.v >= 0
            /\ ~eq_solve_else(an, bn, fh) =>
                  Load32(out) = FAdd(IF FLt(an, bn) THEN an ELSE bn, fh)

====
